---- MODULE Spec2Model ----
(***************************************************************************)
(* A model of gains.py: the trade record (StockTrade), the match           *)
(* operation, the matched pair (TradePair), the two-queue lot matcher      *)
(* (StockTrades.pair_trades) and the per-symbol ledger (StockTrades.add,   *)
(* finish, stock_pairs, option_pairs).                                     *)
(*                                                                         *)
(* Python objects are references.  A run of pair_trades works on a heap:   *)
(* a sequence of trade records in which an object is its index.  The input *)
(* trades are objects 1..n, every copy() appends a new object, and an      *)
(* assignment to a field of an object changes the heap at that index, so   *)
(* that a change made through one reference is seen through every other.   *)
(*                                                                         *)
(* Dates are proleptic Gregorian day numbers, as datetime.date keeps them   *)
(* (date + timedelta(days=k) is the day number plus k); prices and amounts *)
(* are integers (a fixed number of decimal places).                        *)
(***************************************************************************)
EXTENDS Integers, Sequences, FiniteSets

VARIABLES
    m,              \* the activation of pair_trades: heap, queues, pairs, position
    symbol,         \* StockTrades.symbol
    close_options,  \* StockTrades.close_options
    stock_trades,   \* StockTrades.stock_trades: list of trades
    opt_trade_map,  \* StockTrades.opt_trade_map: insertion-ordered dict, opt_id -> list
    finished,       \* history: finish() has returned normally on this ledger
    last            \* what the latest call of each ledger operation returned or raised

vars == <<m, symbol, close_options, stock_trades, opt_trade_map, finished, last>>

(***************************************************************************)
(* Bounds of the model and constants of the program.                       *)
(***************************************************************************)
MaxTrades == 3      \* longest trade list handed to pair_trades in SpecMatcher
MaxQty == 2         \* largest magnitude of an input quantity
MaxAdds == 2        \* most add() calls accepted by the ledger in Spec
LongTermDays == 366 \* timedelta(days=366) in TradePair.__init__

NoTrade == 0        \* None where a trade is expected; objects are 1, 2, ...

Abs(x) == IF x < 0 THEN -x ELSE x

RECURSIVE SumSeq(_)
SumSeq(s) == IF s = <<>> THEN 0 ELSE Head(s) + SumSeq(Tail(s))

(***************************************************************************)
(* datetime.date: the day number of a calendar date (date.toordinal)       *)
(***************************************************************************)
IsLeap(y) == y % 4 = 0 /\ (y % 100 # 0 \/ y % 400 = 0)

DaysBeforeYear(y) ==
    (y - 1) * 365 + ((y - 1) \div 4) - ((y - 1) \div 100) + ((y - 1) \div 400)

DaysBeforeMonth(y, mo) ==
    <<0, 31, 59, 90, 120, 151, 181, 212, 243, 273, 304, 334>>[mo]
    + (IF mo > 2 /\ IsLeap(y) THEN 1 ELSE 0)

Ordinal(y, mo, d) == DaysBeforeYear(y) + DaysBeforeMonth(y, mo) + d

(***************************************************************************)
(* StockTrade                                                              *)
(***************************************************************************)
\* str.upper() on the symbols the model feeds in.
Upper(value) ==
    CASE value = "fb" -> "FB"
      [] value = "meta" -> "META"
      [] value = "ibm" -> "IBM"
      [] OTHER -> value

\* SYMBOL_ALIAS
SYMBOL_ALIAS(value) == IF value = "FB" THEN "META" ELSE value

\* the symbol setter: upper-case, then the alias table
SetSymbol(value) == SYMBOL_ALIAS(Upper(value))

\* the price setter: a negative value is stored as its magnitude
SetPrice(value) == IF value < 0 THEN -value ELSE value

\* A trade as the parser leaves it: __init__ followed by the setters.  origin is
\* a history field that no code reads: the number, within its list, of the
\* ingested or synthesized trade that a trade object was split from.  copy()
\* keeps it, as it keeps self.row.
NewTrade(sym, sec, opt, date, qty, tt, price, origin) ==
    [symbol |-> SetSymbol(sym), security_type |-> sec, option |-> opt,
     date |-> date, quantity |-> qty, trade_type |-> tt,
     price |-> SetPrice(price), fake |-> FALSE, origin |-> origin]

\* StockTrade.copy: a new StockTrade on the same row with symbol, security_type,
\* date, quantity, price and option assigned; trade_type and fake keep the
\* values __init__ gives them (None, False).
Copy(t) ==
    [symbol |-> SetSymbol(t.symbol), security_type |-> t.security_type,
     option |-> t.option, date |-> t.date, quantity |-> t.quantity,
     trade_type |-> "none", price |-> SetPrice(t.price), fake |-> FALSE,
     origin |-> t.origin]

\* Amount with the sign of the quantity lost
AmountUnsigned(t) == Abs(t.quantity) * t.price

\* StockTrade.amount
Amount(t) == t.quantity * t.price

(***************************************************************************)
(* TradePair                                                               *)
(***************************************************************************)
\* the three assertions at the head of TradePair.__init__
PairAsserts(h, a, b) ==
    /\ h[a].quantity * h[b].quantity < 0
    /\ h[a].symbol = h[b].symbol
    /\ h[a].security_type = h[b].security_type

\* l.sort(key=lambda t: [t.date, -t.quantity]) on l = [t1, t2]: the stable sort
\* swaps the two exactly when the key of the second is smaller.
KeyLess(x, y) ==
    \/ x.date < y.date
    \/ x.date = y.date /\ -x.quantity < -y.quantity

\* PairOrder without the sort
PairOrderUnsorted(h, a, b) == <<a, b>>

PairOrder(h, a, b) == IF KeyLess(h[b], h[a]) THEN <<b, a>> ELSE <<a, b>>

\* Profit with a loss reported as a gain
ProfitMagnitude(x, y) == Abs(Amount(x) + Amount(y))

\* profit = -(t1.amount + t2.amount), on the arguments as passed
Profit(x, y) == -(Amount(x) + Amount(y))

\* IsShort with <= for <
IsShortInclusive(date1, date2) == date2 <= date1 + LongTermDays

\* short: date2 < date1 + timedelta(days=366)
IsShort(date1, date2) == date2 < date1 + LongTermDays

\* TradePair(t1, t2) once the assertions have passed.  t1 and t2 are references
\* to heap objects; the other fields are values computed in __init__.
TradePair(h, a, b) ==
    LET l == PairOrder(h, a, b)
        x == h[l[1]]
        y == h[l[2]]
    IN [t1 |-> l[1], t2 |-> l[2],
        symbol |-> x.symbol, security_type |-> x.security_type,
        quantity |-> x.quantity, date1 |-> x.date, date2 |-> y.date,
        profit |-> Profit(h[a], h[b]),
        fake |-> (x.fake \/ y.fake),
        short |-> IsShort(x.date, y.date)]

(***************************************************************************)
(* StockTrade.match                                                        *)
(***************************************************************************)
\* Match with the matched leg of a split self left at self's full quantity
MatchFullSelf(h, s, o) ==
    LET a == h[s].quantity
        b == h[o].quantity
        remain_q == a + b
        n == Len(h)
    IN IF remain_q # 0
       THEN IF remain_q * a > 0
            THEN [heap |-> h \o << [Copy(h[s]) EXCEPT !.quantity = remain_q],
                                   Copy(h[s]) >>,
                  remain |-> n + 1, t1 |-> n + 2, t2 |-> o]
            ELSE [heap |-> h \o << [Copy(h[o]) EXCEPT !.quantity = remain_q],
                                   [Copy(h[o]) EXCEPT !.quantity = b - remain_q] >>,
                  remain |-> n + 1, t1 |-> s, t2 |-> n + 2]
       ELSE [heap |-> h, remain |-> NoTrade, t1 |-> s, t2 |-> o]

\* Match with a split self reduced in place instead of in a copy
MatchInPlace(h, s, o) ==
    LET a == h[s].quantity
        b == h[o].quantity
        remain_q == a + b
        n == Len(h)
    IN IF remain_q # 0
       THEN IF remain_q * a > 0
            THEN [heap |-> Append([h EXCEPT ![s].quantity = a - remain_q],
                                  [Copy(h[s]) EXCEPT !.quantity = remain_q]),
                  remain |-> n + 1, t1 |-> s, t2 |-> o]
            ELSE [heap |-> h \o << [Copy(h[o]) EXCEPT !.quantity = remain_q],
                                   [Copy(h[o]) EXCEPT !.quantity = b - remain_q] >>,
                  remain |-> n + 1, t1 |-> s, t2 |-> n + 2]
       ELSE [heap |-> h, remain |-> NoTrade, t1 |-> s, t2 |-> o]

\* Match with a remainder as large as the two quantities together
MatchNoProgress(h, s, o) ==
    LET a == h[s].quantity
        b == h[o].quantity
        remain_q == a + b
        n == Len(h)
    IN IF remain_q # 0
       THEN IF remain_q * a > 0
            THEN [heap |-> h \o << [Copy(h[s]) EXCEPT !.quantity = a - b],
                                   [Copy(h[s]) EXCEPT !.quantity = a - remain_q] >>,
                  remain |-> n + 1, t1 |-> n + 2, t2 |-> o]
            ELSE [heap |-> h \o << [Copy(h[o]) EXCEPT !.quantity = b - a],
                                   [Copy(h[o]) EXCEPT !.quantity = b - remain_q] >>,
                  remain |-> n + 1, t1 |-> s, t2 |-> n + 2]
       ELSE [heap |-> h, remain |-> NoTrade, t1 |-> s, t2 |-> o]

\* Match with the side to split chosen by the sign of remain_q alone
MatchBySign(h, s, o) ==
    LET a == h[s].quantity
        b == h[o].quantity
        remain_q == a + b
        n == Len(h)
    IN IF remain_q # 0
       THEN IF remain_q > 0
            THEN [heap |-> h \o << [Copy(h[s]) EXCEPT !.quantity = remain_q],
                                   [Copy(h[s]) EXCEPT !.quantity = a - remain_q] >>,
                  remain |-> n + 1, t1 |-> n + 2, t2 |-> o]
            ELSE [heap |-> h \o << [Copy(h[o]) EXCEPT !.quantity = remain_q],
                                   [Copy(h[o]) EXCEPT !.quantity = b - remain_q] >>,
                  remain |-> n + 1, t1 |-> s, t2 |-> n + 2]
       ELSE [heap |-> h, remain |-> NoTrade, t1 |-> s, t2 |-> o]

\* self.match(trade) on heap h, with self = s and trade = o.  The result is the
\* heap after the call, remain_trade (NoTrade for None) and the two arguments
\* t1, t2 that match hands to TradePair.
Match(h, s, o) ==
    LET a == h[s].quantity
        b == h[o].quantity
        remain_q == a + b
        n == Len(h)
    IN IF remain_q # 0
       THEN IF remain_q * a > 0
            THEN \* remain_trade = self.copy(); t1 = self.copy(); t2 = trade
                 [heap |-> h \o << [Copy(h[s]) EXCEPT !.quantity = remain_q],
                                   [Copy(h[s]) EXCEPT !.quantity = a - remain_q] >>,
                  remain |-> n + 1, t1 |-> n + 2, t2 |-> o]
            ELSE \* remain_trade = trade.copy(); t1 = self; t2 = trade.copy()
                 [heap |-> h \o << [Copy(h[o]) EXCEPT !.quantity = remain_q],
                                   [Copy(h[o]) EXCEPT !.quantity = b - remain_q] >>,
                  remain |-> n + 1, t1 |-> s, t2 |-> n + 2]
       ELSE [heap |-> h, remain |-> NoTrade, t1 |-> s, t2 |-> o]

(***************************************************************************)
(* StockTrades.pair_trades, one step at a time.  An activation is a record *)
(*   heap   the objects; 1..n are the trades of the argument list          *)
(*   n      len(trades)                                                    *)
(*   i      the index of the next trade the for loop takes                 *)
(*   trade  the loop variable (an object, or NoTrade)                      *)
(*   bq, sq the two queue.Queue objects, head first                        *)
(*   pairs  the list of pairs built so far                                 *)
(*   pc     "for": at the head of the for loop; "buy", "sell": at the test *)
(*          of the while loop of that branch; "returned", "ValueError",    *)
(*          "AssertionError": how the call ended; "idle": no call          *)
(***************************************************************************)
Idle ==
    [heap |-> <<>>, n |-> 0, i |-> 1, trade |-> NoTrade, bq |-> <<>>,
     sq |-> <<>>, pairs |-> <<>>, pc |-> "idle"]

\* entry of pair_trades(trades): two empty queues, no pairs
Enter(trades) ==
    [heap |-> trades, n |-> Len(trades), i |-> 1, trade |-> NoTrade,
     bq |-> <<>>, sq |-> <<>>, pairs |-> <<>>, pc |-> "for"]

\* queue.Queue.put: at the tail
Put(q, x) == Append(q, x)

\* for trade in trades: take the next trade and branch on its sign
ForNext(st) ==
    [st EXCEPT !.trade = st.i, !.i = st.i + 1,
               !.pc = IF st.heap[st.i].quantity > 0 THEN "buy" ELSE "sell"]

\* ForEnd with the test of the buy queue left out
ForEndSellOnly(st) ==
    [st EXCEPT !.pc = IF st.sq # <<>> THEN "ValueError" ELSE "returned"]

\* after the loop: raise if a queue is not empty, else return pairs
ForEnd(st) ==
    [st EXCEPT !.pc = IF st.sq # <<>> \/ st.bq # <<>>
                      THEN "ValueError" ELSE "returned"]

\* BuyPut onto the sell queue
BuyPutOnSell(st) ==
    [st EXCEPT !.sq = Put(st.sq, st.trade), !.trade = NoTrade, !.pc = "for"]

\* buy branch, sell queue empty: the while loop ends and bq.put(trade)
BuyPut(st) ==
    [st EXCEPT !.bq = Put(st.bq, st.trade), !.trade = NoTrade, !.pc = "for"]

\* buy branch, one iteration of the while loop
BuyMatch(st) ==
    LET r == Match(st.heap, st.trade, Head(st.sq))
        sq1 == Tail(st.sq)
    IN IF ~PairAsserts(r.heap, r.t1, r.t2)
       THEN [st EXCEPT !.heap = r.heap, !.sq = sq1, !.pc = "AssertionError"]
       ELSE LET st1 == [st EXCEPT !.heap = r.heap, !.sq = sq1,
                           !.pairs = Append(st.pairs, TradePair(r.heap, r.t1, r.t2))]
            IN IF r.remain = NoTrade
               THEN [st1 EXCEPT !.trade = NoTrade, !.pc = "for"]
               ELSE IF r.heap[r.remain].quantity < 0
                    THEN [st1 EXCEPT !.trade = NoTrade, !.pc = "for",
                                     !.sq = Put(sq1, r.remain)]
                    ELSE [st1 EXCEPT !.trade = r.remain]

\* sell branch, buy queue empty: the while loop ends and sq.put(trade)
SellPut(st) ==
    [st EXCEPT !.sq = Put(st.sq, st.trade), !.trade = NoTrade, !.pc = "for"]

\* sell branch, one iteration of the while loop
SellMatch(st) ==
    LET r == Match(st.heap, st.trade, Head(st.bq))
        bq1 == Tail(st.bq)
    IN IF ~PairAsserts(r.heap, r.t1, r.t2)
       THEN [st EXCEPT !.heap = r.heap, !.bq = bq1, !.pc = "AssertionError"]
       ELSE LET st1 == [st EXCEPT !.heap = r.heap, !.bq = bq1,
                           !.pairs = Append(st.pairs, TradePair(r.heap, r.t1, r.t2))]
            IN IF r.remain = NoTrade
               THEN [st1 EXCEPT !.trade = NoTrade, !.pc = "for"]
               ELSE IF r.heap[r.remain].quantity > 0
                    THEN [st1 EXCEPT !.trade = NoTrade, !.pc = "for",
                                     !.bq = Put(bq1, r.remain)]
                    ELSE [st1 EXCEPT !.trade = r.remain]

Running(st) == st.pc \in {"for", "buy", "sell"}

\* the step the code takes next from a running activation
Step(st) ==
    CASE st.pc = "for" /\ st.i <= st.n -> ForNext(st)
      [] st.pc = "for" /\ st.i > st.n -> ForEnd(st)
      [] st.pc = "buy" /\ st.sq = <<>> -> BuyPut(st)
      [] st.pc = "buy" /\ st.sq # <<>> -> BuyMatch(st)
      [] st.pc = "sell" /\ st.bq = <<>> -> SellPut(st)
      [] st.pc = "sell" /\ st.bq # <<>> -> SellMatch(st)

\* the whole call: the activation in which pair_trades(trades) ends
RECURSIVE Run(_)
Run(st) == IF Running(st) THEN Run(Step(st)) ELSE st

pair_trades(trades) == Run(Enter(trades))

(***************************************************************************)
(* StockTrades: the ledger of one symbol                                   *)
(***************************************************************************)
\* StockOption.__str__, the option id: the four interpolated fields
OptId(option) == <<option.symbol, option.date, option.type, option.strike>>

\* a pair as the caller receives it: the legs by value
PairValue(h, p) == [p EXCEPT !.t1 = h[p.t1], !.t2 = h[p.t2]]

\* what a call of pair_trades hands to its caller: the list it returns, or the
\* exception it raises (and then no list)
Outcome(r) ==
    IF r.pc = "returned"
    THEN [status |-> "ok", pairs |-> [k \in 1 .. Len(r.pairs) |-> PairValue(r.heap, r.pairs[k])]]
    ELSE [status |-> r.pc, pairs |-> <<>>]

\* the objects of the argument list after the call
After(r) == SubSeq(r.heap, 1, r.n)

\* the index of opt_id in the dict, 0 if it is no key
KeyIndex(map, opt_id) ==
    IF \E k \in 1 .. Len(map) : map[k].opt_id = opt_id
    THEN CHOOSE k \in 1 .. Len(map) : map[k].opt_id = opt_id
    ELSE 0

\* add(trade) past the assertion: append to the stock list or to the list of
\* the trade's option id, created on first sight
AddStock(trades, trade) == Append(trades, trade)

AddOption(map, trade) ==
    LET opt_id == OptId(trade.option)
        k == KeyIndex(map, opt_id)
    IN IF k = 0
       THEN Append(map, [opt_id |-> opt_id, trades |-> <<trade>>])
       ELSE [map EXCEPT ![k].trades = Append(@, trade)]

\* list.sort(key=lambda t: t.date): stable, by insertion from the left
RECURSIVE InsertByDate(_, _)
InsertByDate(sorted, t) ==
    IF sorted = <<>> THEN <<t>>
    ELSE IF sorted[Len(sorted)].date <= t.date THEN Append(sorted, t)
    ELSE Append(InsertByDate(SubSeq(sorted, 1, Len(sorted) - 1), t), sorted[Len(sorted)])

\* SortByDate with a trade inserted before the trades of its own date
RECURSIVE InsertBeforeDate(_, _)
InsertBeforeDate(sorted, t) ==
    IF sorted = <<>> THEN <<t>>
    ELSE IF sorted[Len(sorted)].date < t.date THEN Append(sorted, t)
    ELSE Append(InsertBeforeDate(SubSeq(sorted, 1, Len(sorted) - 1), t), sorted[Len(sorted)])

RECURSIVE SortByDateUnstable(_)
SortByDateUnstable(trades) ==
    IF trades = <<>> THEN <<>>
    ELSE InsertBeforeDate(SortByDateUnstable(SubSeq(trades, 1, Len(trades) - 1)),
                          trades[Len(trades)])

RECURSIVE SortByDate(_)
SortByDate(trades) ==
    IF trades = <<>> THEN <<>>
    ELSE InsertByDate(SortByDate(SubSeq(trades, 1, Len(trades) - 1)), trades[Len(trades)])

\* the sums c_q and q of the first loop of finish
ConfusionNet(trades) ==
    SumSeq([k \in 1 .. Len(trades) |->
              IF trades[k].trade_type = "confusion" THEN trades[k].quantity ELSE 0])

NormalNet(trades) ==
    SumSeq([k \in 1 .. Len(trades) |->
              IF trades[k].trade_type = "confusion" THEN 0 ELSE trades[k].quantity])

\* FlipConfusion with the test q - c_q == 0 left out
FlipConfusionEager(trades) ==
    LET c_q == ConfusionNet(trades)
        q == NormalNet(trades)
    IN IF q = 0 /\ c_q = 0 THEN trades
       ELSE IF q + c_q = 0 THEN trades
       ELSE [k \in 1 .. Len(trades) |->
               IF trades[k].trade_type = "confusion"
               THEN [trades[k] EXCEPT !.quantity = -trades[k].quantity]
               ELSE trades[k]]

\* the first loop of finish on one option list: flip the confusion trades when
\* the list does not balance as it is and q - c_q == 0
FlipConfusion(trades) ==
    LET c_q == ConfusionNet(trades)
        q == NormalNet(trades)
    IN IF q = 0 /\ c_q = 0 THEN trades
       ELSE IF q + c_q = 0 THEN trades
       ELSE IF q - c_q = 0
            THEN [k \in 1 .. Len(trades) |->
                    IF trades[k].trade_type = "confusion"
                    THEN [trades[k] EXCEPT !.quantity = -trades[k].quantity]
                    ELSE trades[k]]
            ELSE trades

\* the number of lines "--flip-conufsion---" that the first loop of finish prints
\* on one option list: one for every trade it flips
FlipLines(trades) ==
    LET c_q == ConfusionNet(trades)
        q == NormalNet(trades)
    IN IF q = 0 /\ c_q = 0 THEN 0
       ELSE IF q + c_q = 0 THEN 0
       ELSE IF q - c_q = 0
            THEN Cardinality({k \in 1 .. Len(trades) : trades[k].trade_type = "confusion"})
            ELSE 0

\* q of the second loop of finish
Net(trades) == SumSeq([k \in 1 .. Len(trades) |-> trades[k].quantity])

\* ClosingTrade copied from the last trade of the list instead of the first
ClosingTradeOfLast(trades) ==
    [Copy(trades[Len(trades)]) EXCEPT !.quantity = -Net(trades), !.price = SetPrice(0),
                                      !.fake = TRUE, !.origin = Len(trades) + 1]

\* the trade the second loop appends to an open option list: a copy of the first
\* trade with quantity -q, price 0 and fake set.  origin numbers it as a trade of
\* its own.
ClosingTrade(trades) ==
    [Copy(trades[1]) EXCEPT !.quantity = -Net(trades), !.price = SetPrice(0),
                            !.fake = TRUE, !.origin = Len(trades) + 1]

\* CloseOptions with close_options taken as set
RECURSIVE CloseOptionsAnyway(_, _, _)
CloseOptionsAnyway(map, k, close) ==
    IF k > Len(map) THEN [status |-> "ok", map |-> map]
    ELSE IF Net(map[k].trades) = 0 THEN CloseOptionsAnyway(map, k + 1, close)
    ELSE CloseOptionsAnyway([map EXCEPT ![k].trades = Append(@, ClosingTrade(@))],
                            k + 1, close)

\* the second loop of finish from list k on: close the open lists, or raise at
\* the first open one
RECURSIVE CloseOptions(_, _, _)
CloseOptions(map, k, close) ==
    IF k > Len(map) THEN [status |-> "ok", map |-> map]
    ELSE IF Net(map[k].trades) = 0 THEN CloseOptions(map, k + 1, close)
    ELSE IF close
         THEN CloseOptions([map EXCEPT ![k].trades = Append(@, ClosingTrade(@))],
                           k + 1, close)
         ELSE [status |-> "ValueError", map |-> map]

\* finish(): the sorted stock list, the option lists, how the call ended and
\* the number of flip lines it printed
Finish(stock, map, close) ==
    LET sorted == SortByDate(stock)
        flipped == [k \in 1 .. Len(map) |->
                      [map[k] EXCEPT !.trades = FlipConfusion(@)]]
        closed == CloseOptions(flipped, 1, close)
    IN [stock |-> sorted, map |-> closed.map, status |-> closed.status,
        flips |-> SumSeq([k \in 1 .. Len(map) |-> FlipLines(map[k].trades)])]

\* stock_pairs(): pair_trades on the stock list
StockPairs(stock) == pair_trades(stock)

\* option_pairs() from list k on: pair_trades on each list in dict order, the
\* pairs concatenated; an exception of pair_trades ends the call
RECURSIVE OptionPairs(_, _, _)
OptionPairs(map, k, pairs) ==
    IF k > Len(map) THEN [status |-> "ok", pairs |-> pairs, map |-> map]
    ELSE LET r == pair_trades(map[k].trades)
             map1 == [map EXCEPT ![k].trades = After(r)]
         IN IF r.pc = "returned"
            THEN OptionPairs(map1, k + 1, pairs \o Outcome(r).pairs)
            ELSE [status |-> r.pc, pairs |-> <<>>, map |-> map1]

(***************************************************************************)
(* SpecMatcher: pair_trades on every date-ordered list of up to MaxTrades  *)
(* nonzero-quantity trades of one instrument, one step at a time.          *)
(***************************************************************************)
Dates == {Ordinal(2023, 1, 1), Ordinal(2024, 1, 1), Ordinal(2024, 1, 2)}
Quantities == (-MaxQty) .. MaxQty

\* The price on row j as the broker's file gives it: every row has a price of
\* its own, and the odd rows carry it with a minus sign.
RawPrice(j) == IF j % 2 = 1 THEN -j ELSE j

ledgerVars == <<symbol, close_options, stock_trades, opt_trade_map, finished, last>>

\* no result of a pairing query on record
NoResult == [status |-> "none", pairs |-> <<>>]

\* last: the call that raised and its exception (op and status, "none" while no
\* call has raised), and what stock_pairs and option_pairs returned the last
\* time each was called since the latest add or finish (an exception leaves
\* the caller with no result); flips: the number of flip lines that finish
\* printed, if it was the latest call
NoCalls == [op |-> "none", status |-> "none", stock_pairs |-> NoResult,
            option_pairs |-> NoResult, flips |-> 0]

Raised(op, status) == [NoCalls EXCEPT !.op = op, !.status = status]

InputTrade(x, origin) ==
    NewTrade("meta", "stock", "none", x[1], x[2], "none", RawPrice(origin), origin)

MatcherInputs ==
    LET Fields == Dates \X (Quantities \ {0})
        Lists(k) == {f \in [1 .. k -> Fields] :
                        \A j \in 1 .. k - 1 : f[j][1] <= f[j + 1][1]}
    IN UNION {{[j \in 1 .. k |-> InputTrade(f[j], j)] : f \in Lists(k)} :
                 k \in 1 .. MaxTrades}

InitMatcher ==
    /\ m \in {Enter(trades) : trades \in MatcherInputs}
    /\ symbol = "META"
    /\ close_options = TRUE
    /\ stock_trades = <<>>
    /\ opt_trade_map = <<>>
    /\ finished = FALSE
    /\ last = NoCalls

DoForNext ==
    /\ m.pc = "for" /\ m.i <= m.n
    /\ m' = ForNext(m)
    /\ UNCHANGED ledgerVars

DoForEnd ==
    /\ m.pc = "for" /\ m.i > m.n
    /\ m' = ForEnd(m)
    /\ UNCHANGED ledgerVars

DoBuyPut ==
    /\ m.pc = "buy" /\ m.sq = <<>>
    /\ m' = BuyPut(m)
    /\ UNCHANGED ledgerVars

DoBuyMatch ==
    /\ m.pc = "buy" /\ m.sq # <<>>
    /\ m' = BuyMatch(m)
    /\ UNCHANGED ledgerVars

DoSellPut ==
    /\ m.pc = "sell" /\ m.bq = <<>>
    /\ m' = SellPut(m)
    /\ UNCHANGED ledgerVars

DoSellMatch ==
    /\ m.pc = "sell" /\ m.bq # <<>>
    /\ m' = SellMatch(m)
    /\ UNCHANGED ledgerVars

NextMatcher ==
    \/ DoForNext
    \/ DoForEnd
    \/ DoBuyPut
    \/ DoBuyMatch
    \/ DoSellPut
    \/ DoSellMatch

SpecMatcher == InitMatcher /\ [][NextMatcher]_vars

\* pair_trades is straight-line code in one thread with no blocking call: while
\* a step is possible the interpreter takes it
SpecMatcherFair == SpecMatcher /\ WF_vars(NextMatcher)

(***************************************************************************)
(* Spec: one ledger, as StockCsvReader.load builds it for the symbol META. *)
(* The caller may call add, finish, stock_pairs and option_pairs in any    *)
(* order; the ledger accepts at most MaxAdds trades.  No caller in the     *)
(* repository catches an exception: the first call that raises ends the    *)
(* run.                                                                    *)
(***************************************************************************)
RawSymbols == {"fb", "ibm"}
LedgerDates == {Ordinal(2023, 1, 1), Ordinal(2023, 1, 2)}

\* The rows of a broker's file, as (date, quantity, trade_type).  A stock row
\* carries any date and quantity.  An ordinary row of the call does too; an
\* expiry row of unknown direction (trade_type "confusion") carries the latest
\* date and a nonzero quantity.  The put is a second contract with ordinary
\* rows of one date and a nonzero quantity.  Of the rows of another symbol one
\* of each kind is fed to the ledger.
StockRows(sym) ==
    IF SetSymbol(sym) = "META" THEN LedgerDates \X Quantities \X {"none"}
    ELSE {<<Ordinal(2023, 1, 1), 1, "none">>}

OptionRows(sym, opt) ==
    IF SetSymbol(sym) # "META" THEN {<<Ordinal(2023, 1, 1), 1, "none">>}
    ELSE IF opt.type = "call"
         THEN (LedgerDates \X Quantities \X {"none"})
              \cup ({Ordinal(2023, 1, 2)} \X (Quantities \ {0}) \X {"confusion"})
         ELSE {Ordinal(2023, 1, 1)} \X (Quantities \ {0}) \X {"none"}

\* the list of the option id, empty if the dict has no such key
OptionList(map, opt_id) ==
    IF KeyIndex(map, opt_id) = 0 THEN <<>> ELSE map[KeyIndex(map, opt_id)].trades
Option(ty) == [symbol |-> "META", type |-> ty, strike |-> 5, date |-> Ordinal(2023, 6, 16)]
Options == {Option("call"), Option("put")}

\* the trades add has accepted: those of the lists that finish did not make
AddCount ==
    Cardinality({k \in 1 .. Len(stock_trades) : ~stock_trades[k].fake})
    + SumSeq([g \in 1 .. Len(opt_trade_map) |->
                Cardinality({k \in 1 .. Len(opt_trade_map[g].trades) :
                                ~opt_trade_map[g].trades[k].fake})])

\* no call has raised yet
Alive == last.status \notin {"AssertionError", "ValueError"}

Init ==
    /\ m = Idle
    /\ symbol = "META"
    /\ close_options \in BOOLEAN
    /\ stock_trades = <<>>
    /\ opt_trade_map = <<>>
    /\ finished = FALSE
    /\ last = NoCalls

\* add(trade): the assertion on the symbol, then the append
Add(trade) ==
    IF symbol # trade.symbol
    THEN /\ last' = Raised("add", "AssertionError")
         /\ UNCHANGED <<stock_trades, opt_trade_map>>
    ELSE /\ IF trade.security_type = "stock"
            THEN /\ stock_trades' = AddStock(stock_trades, trade)
                 /\ UNCHANGED opt_trade_map
            ELSE /\ opt_trade_map' = AddOption(opt_trade_map, trade)
                 /\ UNCHANGED stock_trades
         /\ last' = NoCalls

DoAddStock ==
    /\ Alive
    /\ AddCount < MaxAdds
    /\ \E sym \in RawSymbols : \E x \in StockRows(sym) :
          LET row == Len(stock_trades) + 1
          IN Add(NewTrade(sym, "stock", "none", x[1], x[2], x[3], RawPrice(row), row))
    /\ UNCHANGED <<m, symbol, close_options, finished>>

DoAddOption ==
    /\ Alive
    /\ AddCount < MaxAdds
    /\ \E sym \in RawSymbols, opt \in Options : \E x \in OptionRows(sym, opt) :
          LET row == Len(OptionList(opt_trade_map, OptId(opt))) + 1
          IN Add(NewTrade(sym, "option", opt, x[1], x[2], x[3], RawPrice(row), row))
    /\ UNCHANGED <<m, symbol, close_options, finished>>

DoFinish ==
    LET r == Finish(stock_trades, opt_trade_map, close_options)
    IN /\ Alive
       /\ stock_trades' = r.stock
       /\ opt_trade_map' = r.map
       /\ finished' = (finished \/ r.status = "ok")
       /\ last' = IF r.status = "ok" THEN [NoCalls EXCEPT !.flips = r.flips]
                  ELSE [Raised("finish", r.status) EXCEPT !.flips = r.flips]
       /\ UNCHANGED <<m, symbol, close_options>>

DoStockPairs ==
    LET r == StockPairs(stock_trades)
    IN /\ Alive
       /\ stock_trades' = After(r)
       /\ last' = IF r.pc = "returned"
                  THEN [last EXCEPT !.stock_pairs = Outcome(r), !.flips = 0]
                  ELSE Raised("stock_pairs", r.pc)
       /\ UNCHANGED <<m, symbol, close_options, opt_trade_map, finished>>

DoOptionPairs ==
    LET r == OptionPairs(opt_trade_map, 1, <<>>)
    IN /\ Alive
       /\ opt_trade_map' = r.map
       /\ last' = IF r.status = "ok"
                  THEN [last EXCEPT !.option_pairs = [status |-> "ok", pairs |-> r.pairs],
                                    !.flips = 0]
                  ELSE Raised("option_pairs", r.status)
       /\ UNCHANGED <<m, symbol, close_options, stock_trades, finished>>

Next ==
    \/ DoAddStock
    \/ DoAddOption
    \/ DoFinish
    \/ DoStockPairs
    \/ DoOptionPairs

Spec == Init /\ [][Next]_vars

(***************************************************************************)
(* Properties of pair_trades, checked under SpecMatcher.                   *)
(***************************************************************************)
Done == m.pc \in {"returned", "ValueError", "AssertionError"}

\* the argument list: objects 1..n of the heap
Input(j) == m.heap[j]
InputNet == SumSeq([j \in 1 .. m.n |-> Input(j).quantity])

Queued == {m.bq[j] : j \in 1 .. Len(m.bq)} \cup {m.sq[j] : j \in 1 .. Len(m.sq)}

\* the two legs of a pair of the activation, by value
Leg1(p) == m.heap[p.t1]
Leg2(p) == m.heap[p.t2]
PairSet == {m.pairs[k] : k \in 1 .. Len(m.pairs)}

\* the lot a pair closes: the older of the trades its legs were split from
OpenOrigin(p) ==
    IF Leg1(p).origin <= Leg2(p).origin THEN Leg1(p).origin ELSE Leg2(p).origin

OldestFirst(q) ==
    \A j \in 1 .. Len(q) - 1 : m.heap[q[j]].origin < m.heap[q[j + 1]].origin

\* C1: FIFO discipline.  On a date-ordered list each queue holds its lots oldest
\* first (the remainder of a partly consumed head is the head again), and no
\* lot still open is older than the lot that a pair already made has closed.
C1_FifoDiscipline ==
    /\ OldestFirst(m.bq)
    /\ OldestFirst(m.sq)
    /\ \A p \in PairSet : \A x \in Queued : OpenOrigin(p) <= m.heap[x].origin

\* C2: pair_trades on nonzero-quantity trades raises the unbalanced-position
\* error exactly when the input quantities do not sum to 0, returns otherwise,
\* and hands no pairs to the caller when it raises.
C2_UnbalancedDetection ==
    Done => /\ (m.pc = "ValueError") <=> (InputNet # 0)
            /\ (m.pc = "returned") <=> (InputNet = 0)
            /\ m.pc = "ValueError" => Outcome(m).pairs = <<>>

\* C2 witness: the call has raised after it had built pairs
C2_Witness == m.pc = "ValueError" /\ m.pairs # <<>>

\* the quantities of all legs split from input trade j
LegQuantity(p, j) ==
    (IF Leg1(p).origin = j THEN Leg1(p).quantity ELSE 0)
    + (IF Leg2(p).origin = j THEN Leg2(p).quantity ELSE 0)

MatchedQuantity(j) ==
    SumSeq([k \in 1 .. Len(m.pairs) |-> LegQuantity(m.pairs[k], j)])

\* C3: conservation.  When the input quantities sum to 0 the call returns, the
\* two legs of every pair have equal magnitude and opposite sign, and the legs
\* split from an input trade sum to the quantity of that trade.
C3_Conservation ==
    (Done /\ InputNet = 0) =>
        /\ m.pc = "returned"
        /\ \A p \in PairSet :
              /\ Leg1(p).quantity + Leg2(p).quantity = 0
              /\ Leg1(p).quantity * Leg2(p).quantity < 0
        /\ \A j \in 1 .. m.n : MatchedQuantity(j) = Input(j).quantity

\* C3 witness: a returned pairing in which an input trade was split over two pairs
C3_Witness ==
    /\ m.pc = "returned"
    /\ \E j \in 1 .. m.n :
          Cardinality({k \in 1 .. Len(m.pairs) : LegQuantity(m.pairs[k], j) # 0}) >= 2

\* C7: a pair is short-term exactly when its two dates are at most 365 days
\* apart: 2023-01-01 with 2024-01-01 is short-term, with 2024-01-02 long-term.
C7_HoldingPeriod ==
    \A p \in PairSet :
        /\ p.short <=> (p.date2 - p.date1 <= 365)
        /\ p.short <=> (p.date2 < p.date1 + 366)
        /\ (p.date1 = Ordinal(2023, 1, 1) /\ p.date2 = Ordinal(2024, 1, 1)) => p.short
        /\ (p.date1 = Ordinal(2023, 1, 1) /\ p.date2 = Ordinal(2024, 1, 2)) => ~p.short

\* C7 witness: one pairing holds a pair 365 days apart and a pair 366 days apart
C7_Witness ==
    /\ \E p \in PairSet : p.date2 - p.date1 = 365 /\ p.short
    /\ \E p \in PairSet : p.date2 - p.date1 = 366 /\ ~p.short

BuyLeg(p) == IF Leg1(p).quantity > 0 THEN Leg1(p) ELSE Leg2(p)
SellLeg(p) == IF Leg1(p).quantity > 0 THEN Leg2(p) ELSE Leg1(p)

\* C8: the profit of a pair is minus the sum of the amounts of its two legs,
\* which is the matched magnitude times (sell price - buy price), on the
\* quantities of the legs as split.
C8_Profit ==
    \A p \in PairSet :
        /\ p.profit = -((Leg1(p).quantity * Leg1(p).price)
                         + (Leg2(p).quantity * Leg2(p).price))
        /\ p.profit = Abs(Leg1(p).quantity) * (SellLeg(p).price - BuyLeg(p).price)

\* C8 witness: a pair with a leg that is part of a larger input trade, once
\* bought before sold and once sold before bought
C8_Witness ==
    /\ \E p \in PairSet :
          /\ BuyLeg(p).origin < SellLeg(p).origin
          /\ Input(BuyLeg(p).origin).quantity # BuyLeg(p).quantity
          /\ p.profit # 0
    /\ \E p \in PairSet : SellLeg(p).origin < BuyLeg(p).origin

\* C9: in every pair date1 <= date2, the first leg is the earlier-dated one (on
\* equal dates the buy), date1, date2 and quantity are those of the legs in
\* that order; a sale covered on a later day gives one pair with the negative
\* quantity of the sale, a purchase sold on a later day a positive one.
C9_PairOrdering ==
    /\ \A p \in PairSet :
          /\ p.date1 <= p.date2
          /\ p.date1 = Leg1(p).date /\ p.date2 = Leg2(p).date
          /\ p.date1 = p.date2 => Leg1(p).quantity > 0
          /\ p.quantity = Leg1(p).quantity
    /\ (m.pc = "returned" /\ m.n = 2 /\ Input(1).date < Input(2).date) =>
          /\ Len(m.pairs) = 1
          /\ m.pairs[1].quantity = Input(1).quantity
          /\ m.pairs[1].date1 = Input(1).date
          /\ m.pairs[1].date2 = Input(2).date

\* C9 witness: a sale covered on a later day, paired
C9_Witness ==
    /\ m.pc = "returned" /\ m.n = 2
    /\ Input(1).quantity < 0 /\ Input(1).date < Input(2).date
    /\ Len(m.pairs) = 1 /\ m.pairs[1].quantity < 0

(***************************************************************************)
(* Properties of the ledger, checked under Spec.                           *)
(***************************************************************************)
Groups == 1 .. Len(opt_trade_map)
GroupTrades(g) == {opt_trade_map[g].trades[k] : k \in 1 .. Len(opt_trade_map[g].trades)}
LedgerTrades ==
    {stock_trades[k] : k \in 1 .. Len(stock_trades)} \cup UNION {GroupTrades(g) : g \in Groups}

OptionPairSet == {last.option_pairs.pairs[k] : k \in 1 .. Len(last.option_pairs.pairs)}

\* the leg was split from a closing trade that finish made
FromClosingTrade(leg) ==
    \E g \in Groups : \E t \in GroupTrades(g) :
        /\ opt_trade_map[g].opt_id = OptId(leg.option)
        /\ t.fake
        /\ t.origin = leg.origin

\* C4: every pair that option_pairs returns with a leg taken from the closing
\* trade made by finish is flagged fake, and its profit is minus the amount of
\* its real leg.
C4_AutoCloseVisible ==
    \A p \in OptionPairSet :
        (FromClosingTrade(p.t1) \/ FromClosingTrade(p.t2)) =>
            /\ p.fake
            /\ ~FromClosingTrade(p.t1) => p.profit = -(p.t1.quantity * p.t1.price)
            /\ ~FromClosingTrade(p.t2) => p.profit = -(p.t2.quantity * p.t2.price)

\* C5: with close_options false, finish raises exactly when an option list has
\* a nonzero net quantity after the confusion step, and it appends no trade to
\* any list.
C5_OpenOptionRaises ==
    [][(DoFinish /\ ~close_options) =>
          /\ (last'.op = "finish" /\ last'.status = "ValueError")
               <=> (\E g \in 1 .. Len(opt_trade_map') : Net(opt_trade_map'[g].trades) # 0)
          /\ last'.status \in {"none", "ValueError"}
          /\ Len(stock_trades') = Len(stock_trades)
          /\ Len(opt_trade_map') = Len(opt_trade_map)
          /\ \A g \in Groups :
                Len(opt_trade_map'[g].trades) = Len(opt_trade_map[g].trades)]_vars

\* C5 witness: finish has raised on a ledger without auto-close whose open
\* option list holds two trades
C5_Witness ==
    /\ ~close_options
    /\ last.op = "finish" /\ last.status = "ValueError"
    /\ \E g \in Groups :
          Net(opt_trade_map[g].trades) # 0 /\ Len(opt_trade_map[g].trades) = 2

\* C6: on a finished ledger a call of stock_pairs or option_pairs leaves the
\* stock list and every option list as they were, and returns what the previous
\* call of the same query returned.
C6_QueriesPure ==
    [][(finished /\ (DoStockPairs \/ DoOptionPairs)) =>
          /\ stock_trades' = stock_trades
          /\ opt_trade_map' = opt_trade_map
          /\ (DoStockPairs /\ last.stock_pairs # NoResult) =>
                last'.stock_pairs = last.stock_pairs
          /\ (DoOptionPairs /\ last.option_pairs # NoResult) =>
                last'.option_pairs = last.option_pairs]_vars

\* C6 witness: a finished ledger on which both queries have returned, the
\* option query with a pair one of whose legs is part of a larger trade
C6_Witness ==
    /\ finished
    /\ last.stock_pairs.status = "ok"
    /\ last.option_pairs.status = "ok"
    /\ \E p \in OptionPairSet : \E g \in Groups : \E t \in GroupTrades(g) :
          t.origin = p.t2.origin /\ t.quantity # p.t2.quantity

\* C10: no trade with another symbol than the ledger's or with quantity 0 is
\* ever accepted into the ledger.
C10_InvalidRejected ==
    \A t \in LedgerTrades : t.symbol = symbol /\ t.quantity # 0

\* the call made in this step raised and left the stock list and every option
\* list as they were
Rejected(op) ==
    /\ last'.op = op
    /\ last'.status # "none"
    /\ stock_trades' = stock_trades
    /\ opt_trade_map' = opt_trade_map

\* C11: the two phases are enforced.  A call of stock_pairs or option_pairs on a
\* ledger on which finish has not run, and a call of add on a ledger on which
\* finish has run, is rejected: it raises and changes nothing.
C11_TwoPhaseContract ==
    [][/\ (~finished /\ DoStockPairs) => Rejected("stock_pairs")
       /\ (~finished /\ DoOptionPairs) => Rejected("option_pairs")
       /\ (finished /\ (DoAddStock \/ DoAddOption)) => Rejected("add")]_vars

\* every trade of the list has a nonzero quantity
AllNonzero(trades) == \A k \in 1 .. Len(trades) : trades[k].quantity # 0

C13_FlipPrecedence ==
    [][DoFinish =>
          \A g \in Groups :
             LET old == opt_trade_map[g].trades
                 all == opt_trade_map'[g].trades
                 new == SubSeq(all, 1, Len(old))
                 Ambiguous(k) == old[k].trade_type = "confusion"
                 net_normal ==
                     SumSeq([k \in 1 .. Len(old) |->
                               IF Ambiguous(k) THEN 0 ELSE old[k].quantity])
                 net_ambiguous ==
                     SumSeq([k \in 1 .. Len(old) |->
                               IF Ambiguous(k) THEN old[k].quantity ELSE 0])
             IN IF net_normal + net_ambiguous # 0 /\ net_normal - net_ambiguous = 0
                THEN /\ \A k \in 1 .. Len(old) :
                           new[k] = IF Ambiguous(k)
                                    THEN [old[k] EXCEPT !.quantity = -old[k].quantity]
                                    ELSE old[k]
                     /\ Net(new) = 0
                     /\ all = new
                ELSE new = old]_vars

\* C13 witness: finish has printed a flip line on a ledger with an option list
\* of an ordinary and a confusion trade
C13_Witness ==
    /\ last.flips > 0
    /\ \E g \in Groups :
          LET trades == opt_trade_map[g].trades
          IN /\ Len(trades) = 2
             /\ trades[1].trade_type # "confusion"
             /\ trades[2].trade_type = "confusion"
             /\ trades[1].quantity + trades[2].quantity = 0

(***************************************************************************)
(* Properties of match and of the steps of pair_trades, checked under      *)
(* SpecMatcher.  A step DoBuyMatch or DoSellMatch is one call              *)
(* self.match(other) with self the trade in hand and other the head of the *)
(* opposite queue.                                                         *)
(***************************************************************************)
MatchCall == DoBuyMatch \/ DoSellMatch

\* the arguments of the call that the step makes
SelfId == m.trade
OtherId == IF m.pc = "buy" THEN Head(m.sq) ELSE Head(m.bq)

\* after the step: the pair the call added, and the remainder it returned (the
\* trade in hand if the loop goes on, the trade put back on the queue if the
\* queue is as long as before, none otherwise), as a sequence of 0 or 1 objects
NewPair == m'.pairs[Len(m'.pairs)]
RemainId ==
    LET before == IF m.pc = "buy" THEN m.sq ELSE m.bq
        after == IF m.pc = "buy" THEN m'.sq ELSE m'.bq
    IN IF m'.trade # NoTrade THEN <<m'.trade>>
       ELSE IF Len(after) = Len(before) THEN <<after[Len(after)]>>
       ELSE <<>>

\* x is y but for the quantity q: same trade of origin, symbol, security type,
\* option, date and price
Portion(x, y, q) ==
    /\ x.origin = y.origin
    /\ x.symbol = y.symbol /\ x.security_type = y.security_type
    /\ x.option = y.option /\ x.date = y.date /\ x.price = y.price
    /\ x.quantity = q

\* C14: the rule table of match.  For self and other with nonzero quantities a
\* and b of opposite sign: no remainder iff a + b = 0, and then the legs are
\* self and other; otherwise the remainder has quantity a + b and is a portion
\* of self when (a + b) * a > 0 and of other if not, and the legs are self
\* reduced to -b with the whole of other in the first case, the whole of self
\* with other reduced to -a in the second.  Neither self nor other is changed.
C14_MatchRuleTable ==
    [][MatchCall =>
          LET self == m.heap[SelfId]
              other == m.heap[OtherId]
              a == self.quantity
              b == other.quantity
              legA == m'.heap[NewPair.t1]
              legB == m'.heap[NewPair.t2]
          IN /\ a * b < 0
             /\ Len(m'.pairs) = Len(m.pairs) + 1
             /\ m'.heap[SelfId] = self
             /\ m'.heap[OtherId] = other
             /\ (RemainId = <<>>) <=> (a + b = 0)
             /\ a + b = 0 => {NewPair.t1, NewPair.t2} = {SelfId, OtherId}
             /\ (a + b # 0 /\ (a + b) * a > 0) =>
                   /\ Abs(a) > Abs(b)
                   /\ Portion(m'.heap[RemainId[1]], self, a + b)
                   /\ OtherId \in {NewPair.t1, NewPair.t2}
                   /\ Portion(legA, self, -b) \/ Portion(legB, self, -b)
             /\ (a + b # 0 /\ (a + b) * a <= 0) =>
                   /\ Abs(b) > Abs(a)
                   /\ Portion(m'.heap[RemainId[1]], other, a + b)
                   /\ SelfId \in {NewPair.t1, NewPair.t2}
                   /\ Portion(legA, other, -a) \/ Portion(legB, other, -a)]_vars

\* C14 witness: the pairs built so far hold a pair for which self, the trade in
\* hand, was split and a pair for which other, the queued lot, was split (self
\* is the later trade of the two)
SplitLater(p) ==
    LET x == IF Leg1(p).origin > Leg2(p).origin THEN Leg1(p) ELSE Leg2(p)
    IN x.quantity # Input(x.origin).quantity
SplitEarlier(p) ==
    LET x == IF Leg1(p).origin > Leg2(p).origin THEN Leg2(p) ELSE Leg1(p)
    IN x.quantity # Input(x.origin).quantity
C14_Witness ==
    /\ \E p \in PairSet : SplitLater(p)
    /\ \E p \in PairSet : SplitEarlier(p)

(***************************************************************************)
(* More properties of the ledger, checked under Spec.                      *)
(***************************************************************************)
\* the trades of the ledger that a leg of an option pair was split from
SourceTrades(leg) ==
    {t \in UNION {IF opt_trade_map[g].opt_id = OptId(leg.option)
                  THEN GroupTrades(g) ELSE {} : g \in Groups} :
        t.origin = leg.origin}

\* C15: every leg of a pair that option_pairs returns has the price, date,
\* option and fake flag of the trade of the ledger it was split from; only the
\* quantity may differ.
C15_CopiesKeepIdentity ==
    \A p \in OptionPairSet : \A leg \in {p.t1, p.t2} : \A t \in SourceTrades(leg) :
        /\ leg.price = t.price
        /\ leg.date = t.date
        /\ leg.option = t.option
        /\ leg.fake = t.fake

\* C16: finish leaves the stock list a permutation of what it was, in
\* non-decreasing date order, with trades of the same date in the order they
\* had (the order in which they were added).
C16_StableDateSort ==
    [][DoFinish =>
          LET old == stock_trades
              new == stock_trades'
              n == Len(old)
          IN /\ Len(new) = n
             /\ \A j, k \in 1 .. n : j < k => new[j].date <= new[k].date
             /\ \E f \in [1 .. n -> 1 .. n] :
                   /\ \A j, k \in 1 .. n : j # k => f[j] # f[k]
                   /\ \A k \in 1 .. n : new[k] = old[f[k]]
                   /\ \A j, k \in 1 .. n :
                         (j < k /\ new[j].date = new[k].date) => f[j] < f[k]]_vars

\* C16 witness: a finished ledger whose stock list holds a trade added later
\* before a trade added earlier
C16_Witness ==
    /\ finished
    /\ \E j, k \in 1 .. Len(stock_trades) :
          /\ j < k
          /\ stock_trades[j].origin > stock_trades[k].origin
          /\ stock_trades[j].date < stock_trades[k].date

\* the dates of the list do not decrease
DateOrdered(trades) ==
    \A j, k \in 1 .. Len(trades) : j < k => trades[j].date <= trades[k].date

\* C17: when finish returns, every option list, with the closing trade that
\* finish may have appended, is in non-decreasing date order, whatever the
\* order in which the trades were added.
C17_OptionListsDateOrdered ==
    [][(DoFinish /\ last'.status = "none") =>
          \A g \in 1 .. Len(opt_trade_map') : DateOrdered(opt_trade_map'[g].trades)]_vars

(***************************************************************************)
(* Properties of pair_trades, checked under SpecMatcherFair and            *)
(* SpecMatcher.                                                            *)
(***************************************************************************)
\* the total magnitude of the unmatched quantity of an activation: the two
\* queues and the trade in hand
Unmatched(st) ==
    SumSeq([j \in 1 .. Len(st.bq) |-> Abs(st.heap[st.bq[j]].quantity)])
    + SumSeq([j \in 1 .. Len(st.sq) |-> Abs(st.heap[st.sq[j]].quantity)])
    + (IF st.trade = NoTrade THEN 0 ELSE Abs(st.heap[st.trade].quantity))

\* C18: pair_trades on a list of nonzero-quantity trades ends, by returning or
\* by raising, and every call of match makes the total magnitude of the
\* unmatched quantity (queues and trade in hand) strictly smaller.
C18_Termination ==
    /\ <>Done
    /\ [][MatchCall => Unmatched(m') < Unmatched(m)]_vars

\* C18 witness: the call has ended after two calls of match, one of them with
\* a remainder
C18_Witness ==
    /\ Done
    /\ Len(m.pairs) >= 2
    /\ Len(m.heap) > m.n

\* the sum of the quantities of the first k trades of the argument list
ProcessedNet(k) == SumSeq([j \in 1 .. k |-> Input(j).quantity])

\* the sum of the quantities on the two queues
QueuedNet ==
    SumSeq([j \in 1 .. Len(m.bq) |-> m.heap[m.bq[j]].quantity])
    + SumSeq([j \in 1 .. Len(m.sq) |-> m.heap[m.sq[j]].quantity])

\* C19: between two trades of the for loop, and when the loop has ended, the
\* buy queue holds positive quantities only, the sell queue negative ones only,
\* one of the two queues is empty, and the queued quantities sum to the sum of
\* the trades taken so far; the assertion of TradePair on the signs never fails.
C19_QueueInvariant ==
    /\ m.pc # "AssertionError"
    /\ m.pc \in {"for", "returned", "ValueError"} =>
          /\ \A j \in 1 .. Len(m.bq) : m.heap[m.bq[j]].quantity > 0
          /\ \A j \in 1 .. Len(m.sq) : m.heap[m.sq[j]].quantity < 0
          /\ m.bq = <<>> \/ m.sq = <<>>
          /\ QueuedNet = ProcessedNet(m.i - 1)

\* C19 witness: between two trades, after a pair was made, with a remainder
\* of a split lot behind a whole lot on a queue
C19_Witness ==
    /\ m.pc = "for"
    /\ m.pairs # <<>>
    /\ \E q \in {m.bq, m.sq} : Len(q) = 2 /\ q[1] <= m.n /\ q[2] > m.n

\* the sum of the profits of the pairs built so far
TotalProfit == SumSeq([k \in 1 .. Len(m.pairs) |-> m.pairs[k].profit])

\* the sum of quantity times price over the argument list
InputAmount == SumSeq([j \in 1 .. m.n |-> Input(j).quantity * Input(j).price])

\* C20: when pair_trades returns on a list of nonzero-quantity trades that sum
\* to 0, the profits of the pairs sum to minus the sum of quantity times price
\* over the trades of the list, whichever lots were matched with each other.
C20_TotalProfit ==
    (m.pc = "returned" /\ InputNet = 0) => TotalProfit = -InputAmount

\* C20 witness: a returned pairing of two pairs or more, one of them at a
\* loss, in which a trade was split
C20_Witness ==
    /\ m.pc = "returned"
    /\ Len(m.pairs) >= 2
    /\ \E p \in PairSet : p.profit < 0
    /\ Len(m.heap) > m.n

====
